---------------------------- MODULE Spec2Model ----------------------------
(***************************************************************************)
(* A model of minijinja's src/utils.rs: the HTML entity escaper            *)
(* (HtmlEscape), the escape-mode dispatcher (write_escaped), the literal   *)
(* unescaper (Unescaper), the substring search (memstr) and the scoped     *)
(* cleanup guard (OnDrop).                                                 *)
(*                                                                         *)
(* Text is a sequence of integers: bytes (0..255) for &str seen through    *)
(* as_bytes() in the escaper and the dispatcher, Unicode scalar values for *)
(* the chars() iterator of the unescaper.  Indices keep the 0-based values *)
(* of the Rust code; bytes[a..b] is SubSeq(bytes, a + 1, b).               *)
(*                                                                         *)
(* The output sink and the formatter are the in-memory (String backed)     *)
(* ones of to_string() and of rendering into a String, whose write_str     *)
(* appends and returns Ok(()).  The crate is modelled with its default     *)
(* feature set: "json" on, "v_htmlescape" off.                             *)
(***************************************************************************)
EXTENDS Integers, Sequences, FiniteSets, TLC

VARIABLES
    \* HtmlEscape::fmt
    bytes,              \* self.0.as_bytes()
    i,                  \* the index of the enumerate() loop, 0-based
    start,              \* let mut start
    f,                  \* the text the formatter has received
    writes,             \* the slices bytes[from..to) flushed by write_str
    hpc,                \* "idle", "scan" or "done"
    \* Unescaper::unescape
    s,                  \* the input, as chars
    pos,                \* how many chars char_iter has yielded
    out,                \* self.out
    pending_surrogate,  \* self.pending_surrogate
    hexnum,             \* parse_u16's hexnum of the last \u escape
    val,                \* the result of the last parse_u16
    ures,               \* "idle", "run", "Ok" or "BadEscape"
    \* write_escaped
    value,              \* the &Value argument
    auto_escape,        \* the AutoEscape argument
    sink,               \* the text the Output has received
    wres,               \* "idle", "call", or the Result returned
    \* memstr
    haystack,
    needle,
    mres,               \* "idle", "call", or the outcome of the call
    \* OnDrop
    guards,             \* per guard: its life stage and its Option<F> slot
    log,                \* the guards whose closure ran, in order
    scope               \* "idle", "body", "unwinding" or "exited"

htmlVars == <<bytes, i, start, f, writes, hpc>>
unescVars == <<s, pos, out, pending_surrogate, hexnum, val, ures>>
writeVars == <<value, auto_escape, sink, wres>>
memVars == <<haystack, needle, mres>>
dropVars == <<guards, log, scope>>
vars == <<htmlVars, unescVars, writeVars, memVars, dropVars>>
notHtml == <<unescVars, writeVars, memVars, dropVars>>
notUnesc == <<htmlVars, writeVars, memVars, dropVars>>
notWrite == <<htmlVars, unescVars, memVars, dropVars>>
notMem == <<htmlVars, unescVars, writeVars, dropVars>>
notDrop == <<htmlVars, unescVars, writeVars, memVars>>

-----------------------------------------------------------------------------
(* Bounds of the model. *)
MaxLen == 3         \* length of the strings given to HtmlEscape
MaxStr == 2         \* length of the text of a Value given to write_escaped
MaxChunks == 3      \* pieces an unescape input is put together from
MaxHay == 3         \* length of memstr's haystack
MaxNeedle == 3      \* length of memstr's needle
MaxGuards == 3      \* OnDrop guards created in one scope

SeqsUpTo(A, n) == UNION {[1..k -> A] : k \in 0..n}

RECURSIVE Concat(_)
Concat(ss) == IF ss = <<>> THEN <<>> ELSE Head(ss) \o Concat(Tail(ss))

-----------------------------------------------------------------------------
(* HtmlEscape *)

QUOT == 34          \* b'"'
AMP == 38           \* b'&'
APOS == 39          \* b'\''
SLASH == 47         \* b'/'
LT == 60            \* b'<'
GT == 62            \* b'>'

\* u8::wrapping_sub
wrapping_sub(a, b) == (a - b + 256) % 256

\* the guard of line 156, with <= mistaken for <
InEscapeRangeStrict(b) == wrapping_sub(b, QUOT) < GT - QUOT

\* if b.wrapping_sub(b'"') <= b'>' - b'"'
InEscapeRange(b) == wrapping_sub(b, QUOT) <= GT - QUOT

\* the arms of `match *b`: the entity written, <<>> for the `_ => ()` arm
MatchArm(b) ==
    CASE b = LT -> <<38, 108, 116, 59>>                 \* "&lt;"
      [] b = GT -> <<38, 103, 116, 59>>                 \* "&gt;"
      [] b = AMP -> <<38, 97, 109, 112, 59>>            \* "&amp;"
      [] b = QUOT -> <<38, 113, 117, 111, 116, 59>>     \* "&quot;"
      [] b = APOS -> <<38, 35, 120, 50, 55, 59>>        \* "&#x27;"
      [] b = SLASH -> <<38, 35, 120, 50, 102, 59>>      \* "&#x2f;"
      [] OTHER -> <<>>

\* whether the loop body reaches an escaping_body! for byte b
Escapes(b) == InEscapeRange(b) /\ MatchArm(b) /= <<>>

\* escaping_body! with `start = i + 1` mistaken for `start = i`
escaping_body_stuck(bs, idx, st, txt, quote) ==
    [start |-> idx,
     f |-> (IF st < idx THEN txt \o SubSeq(bs, st + 1, idx) ELSE txt) \o quote,
     run |-> IF st < idx THEN <<[from |-> st, to |-> idx]>> ELSE <<>>]

\* macro escaping_body!: flush bytes[start..i), write the entity, start = i + 1
escaping_body(bs, idx, st, txt, quote) ==
    [start |-> idx + 1,
     f |-> (IF st < idx THEN txt \o SubSeq(bs, st + 1, idx) ELSE txt) \o quote,
     run |-> IF st < idx THEN <<[from |-> st, to |-> idx]>> ELSE <<>>]

\* one iteration of `for (i, b) in bytes.iter().enumerate()`
ScanByte(bs, idx, st, txt) ==
    IF Escapes(bs[idx + 1])
    THEN escaping_body(bs, idx, st, txt, MatchArm(bs[idx + 1]))
    ELSE [start |-> st, f |-> txt, run |-> <<>>]

\* the code after the loop: flush bytes[start..]
FinalFlush(bs, st, txt) ==
    IF st < Len(bs) THEN txt \o SubSeq(bs, st + 1, Len(bs)) ELSE txt

RECURSIVE HtmlLoop(_, _, _, _)
HtmlLoop(bs, idx, st, txt) ==
    IF idx = Len(bs) THEN FinalFlush(bs, st, txt)
    ELSE LET r == ScanByte(bs, idx, st, txt)
         IN HtmlLoop(bs, idx + 1, r.start, r.f)

\* HtmlEscape(s).to_string()
HtmlEscape(str) == HtmlLoop(str, 0, 0, <<>>)

\* the bytes the strings are made of: the six reserved ones, the neighbours of
\* the range tested at line 156 ('!' below it, '?' above it), a byte inside it
\* that is not reserved ('0'), a letter, and the two bytes of U+00E9
HtmlBytes == {33, QUOT, AMP, APOS, SLASH, 48, LT, GT, 63, 97, 195, 169}

\* as_bytes() of a &str is UTF-8: 0xC3 is followed by its continuation byte
IsUtf8(bs) ==
    /\ \A k \in 1..Len(bs) : bs[k] = 195 => (k < Len(bs) /\ bs[k + 1] = 169)
    /\ \A k \in 1..Len(bs) : bs[k] = 169 => (k > 1 /\ bs[k - 1] = 195)

HtmlInputs == {bs \in SeqsUpTo(HtmlBytes, MaxLen) : IsUtf8(bs)}

HtmlIdle ==
    /\ bytes = <<>> /\ i = 0 /\ start = 0 /\ f = <<>> /\ writes = <<>>
    /\ hpc = "idle"

HtmlInit ==
    /\ bytes \in HtmlInputs
    /\ i = 0 /\ start = 0 /\ f = <<>> /\ writes = <<>>
    /\ hpc = "scan"

\* a loop iteration on a reserved byte
HtmlScanEscape ==
    /\ hpc = "scan" /\ i < Len(bytes) /\ Escapes(bytes[i + 1])
    /\ LET r == ScanByte(bytes, i, start, f)
       IN /\ start' = r.start
          /\ f' = r.f
          /\ writes' = writes \o r.run
    /\ i' = i + 1
    /\ UNCHANGED <<bytes, hpc, notHtml>>

\* a loop iteration on any other byte
HtmlScanPass ==
    /\ hpc = "scan" /\ i < Len(bytes) /\ ~Escapes(bytes[i + 1])
    /\ LET r == ScanByte(bytes, i, start, f)
       IN /\ start' = r.start
          /\ f' = r.f
          /\ writes' = writes \o r.run
    /\ i' = i + 1
    /\ UNCHANGED <<bytes, hpc, notHtml>>

\* the end of the loop and the trailing flush
HtmlFinish ==
    /\ hpc = "scan" /\ i = Len(bytes)
    /\ f' = FinalFlush(bytes, start, f)
    /\ writes' = IF start < Len(bytes)
                 THEN Append(writes, [from |-> start, to |-> Len(bytes)])
                 ELSE writes
    /\ hpc' = "done"
    /\ UNCHANGED <<bytes, i, start, notHtml>>

HtmlNext == HtmlScanEscape \/ HtmlScanPass \/ HtmlFinish

-----------------------------------------------------------------------------
(* write_escaped *)

BACKSLASH == 92     \* '\\'

\* A Value: its ValueRepr ("String" carries the text and its StringType), the
\* text its Display writes, and whether serde can serialize it.
StringValue(txt, ty) == [repr |-> "String", text |-> txt, ty |-> ty, ser |-> TRUE]
PlainValue(repr, txt) == [repr |-> repr, text |-> txt, ty |-> "Normal", ser |-> TRUE]
OtherValue(txt, ser) == [repr |-> "Other", text |-> txt, ty |-> "Normal", ser |-> ser]

\* value.kind(): the ValueKind of a value
kind(v) == IF v.repr = "Other" THEN "Seq" ELSE v.repr

\* value.as_str(): Some(text) for a string, None otherwise
as_str(v) == IF v.repr = "String" THEN <<v.text>> ELSE <<>>

\* `{value}` and value.to_string(): the Display of a value
Display(v) == v.text

RECURSIVE JsonBody(_)
JsonBody(txt) ==
    IF txt = <<>> THEN <<>>
    ELSE (IF Head(txt) \in {QUOT, BACKSLASH} THEN <<BACKSLASH, Head(txt)>>
          ELSE <<Head(txt)>>) \o JsonBody(Tail(txt))

\* serde_json::to_string(&value): <<text>> for Ok(text), <<>> for Err
JsonToString(v) ==
    CASE v.repr = "String" -> <<(<<QUOT>> \o JsonBody(v.text)) \o <<QUOT>>>>
      [] v.repr \in {"Undefined", "None"} -> <<<<110, 117, 108, 108>>>>   \* null
      [] v.repr \in {"Bool", "Number"} -> <<v.text>>
      [] OTHER -> IF v.ser THEN <<v.text>> ELSE <<>>

Ok == [kind |-> "Ok", msg |-> <<>>]

\* Error::new(kind, msg)
Err(k, m) == [kind |-> k, msg |-> m]

\* fn write_with_html_escaping
write_with_html_escaping(o, v) ==
    IF kind(v) \in {"Undefined", "None", "Bool", "Number"}
    THEN o \o Display(v)
    ELSE IF as_str(v) /= <<>>
         THEN o \o HtmlEscape(as_str(v)[1])
         ELSE o \o HtmlEscape(Display(v))

\* invalid_autoescape that reports the failure under another ErrorKind
invalid_autoescape_kind(name) ==
    Err("BadSerialization",
        <<"Default formatter does not know how to format to custom format '",
          name, "'">>)

\* fn invalid_autoescape
invalid_autoescape(name) ==
    Err("InvalidOperation",
        <<"Default formatter does not know how to format to custom format '",
          name, "'">>)

\* the match of lines 85-96, reached when the fast path is not taken
write_escaped_match(o, mode, v) ==
    CASE mode.tag = "None" -> [sink |-> o \o Display(v), res |-> Ok]
      [] mode.tag = "Html" -> [sink |-> write_with_html_escaping(o, v), res |-> Ok]
      [] mode.tag = "Json" ->
            IF JsonToString(v) = <<>>
            THEN [sink |-> o,
                  res |-> Err("BadSerialization", <<"unable to format to JSON">>)]
            ELSE [sink |-> o \o JsonToString(v)[1], res |-> Ok]
      [] mode.tag = "Custom" -> [sink |-> o, res |-> invalid_autoescape(mode.name)]

\* write_escaped whose fast path forgets the StringType::Safe test
write_escaped_nosafe(o, mode, v) ==
    IF v.repr = "String" /\ mode.tag = "None"
    THEN [sink |-> o \o v.text, res |-> Ok]
    ELSE write_escaped_match(o, mode, v)

\* pub fn write_escaped
write_escaped(o, mode, v) ==
    IF v.repr = "String" /\ (v.ty = "Safe" \/ mode.tag = "None")
    THEN [sink |-> o \o v.text, res |-> Ok]
    ELSE write_escaped_match(o, mode, v)

\* the bytes the texts of the values are made of
ValueBytes == {QUOT, AMP, LT, 97}

Texts == SeqsUpTo(ValueBytes, MaxStr)

Values ==
    {StringValue(txt, ty) : txt \in Texts, ty \in {"Safe", "Normal"}}
    \cup {OtherValue(txt, ser) : txt \in Texts, ser \in BOOLEAN}
    \cup {PlainValue("Undefined", <<>>),
          PlainValue("None", <<110, 111, 110, 101>>),
          PlainValue("Bool", <<116, 114, 117, 101>>),
          PlainValue("Bool", <<102, 97, 108, 115, 101>>),
          PlainValue("Number", <<52, 50>>)}

Modes ==
    {[tag |-> "None", name |-> ""], [tag |-> "Html", name |-> ""],
     [tag |-> "Json", name |-> ""],
     [tag |-> "Custom", name |-> "foo"], [tag |-> "Custom", name |-> "bar"]}

WriteIdle ==
    /\ value = PlainValue("Undefined", <<>>)
    /\ auto_escape = [tag |-> "None", name |-> ""]
    /\ sink = <<>>
    /\ wres = [kind |-> "idle", msg |-> <<>>]

WriteInit ==
    /\ value \in Values
    /\ auto_escape \in Modes
    /\ sink \in {<<>>, <<LT, 97>>}
    /\ wres = [kind |-> "call", msg |-> <<>>]

\* one call of write_escaped(out, auto_escape, value)
WriteEscaped ==
    /\ wres.kind = "call"
    /\ LET r == write_escaped(sink, auto_escape, value)
       IN /\ sink' = r.sink
          /\ wres' = r.res
    /\ UNCHANGED <<value, auto_escape, notWrite>>

WriteNext == WriteEscaped

-----------------------------------------------------------------------------
(* Unescaper *)

SURROGATE_FIRST == 55296    \* 0xD800
SURROGATE_LAST == 57343     \* 0xDFFF
LETTER_U == 117             \* 'u'

Min(a, b) == IF a < b THEN a ELSE b

\* char::to_digit(16): the digit's value, -1 for None
to_digit16(c) ==
    CASE c \in 48..57 -> c - 48
      [] c \in 97..102 -> c - 87
      [] c \in 65..70 -> c - 55
      [] OTHER -> -1

RECURSIVE Radix16(_, _)
\* the digit loop of from_str_radix: the number, -1 for an invalid digit
Radix16(digits, acc) ==
    IF digits = <<>> THEN acc
    ELSE IF to_digit16(Head(digits)) < 0 THEN -1
         ELSE Radix16(Tail(digits), acc * 16 + to_digit16(Head(digits)))

\* u16::from_str_radix(src, 16) of the standard library: an optional leading
\* '+', then at least one digit; four hex digits never overflow a u16
from_str_radix16(src) ==
    LET digits == IF src /= <<>> /\ Head(src) = 43 THEN Tail(src) ELSE src
    IN IF digits = <<>> THEN -1 ELSE Radix16(digits, 0)

\* chars.chain(repeat('\0')).take(4).collect::<String>()
Take4(str, p) ==
    [k \in 1..4 |-> IF p + k <= Len(str) THEN str[p + k] ELSE 0]

\* fn parse_u16, chars having yielded p chars of str
parse_u16(str, p) ==
    LET n == from_str_radix16(Take4(str, p))
    IN [hexnum |-> Take4(str, p),
        pos |-> Min(p + 4, Len(str)),
        val |-> IF n < 0 THEN [tag |-> "err", v |-> 0] ELSE [tag |-> "ok", v |-> n]]

IsSurrogate(c) == c \in SURROGATE_FIRST..SURROGATE_LAST

\* decode_utf16 that pairs any two surrogate units
decode_utf16_lax(units) ==
    LET u == units[1]
    IN IF ~IsSurrogate(u) THEN [ok |-> TRUE, ch |-> u]
       ELSE IF Len(units) < 2 THEN [ok |-> FALSE, ch |-> 0]
       ELSE [ok |-> TRUE,
             ch |-> ((u % 1024) * 1024 + (units[2] % 1024)) + 65536]

\* std::char::decode_utf16(units).next(): Some(Ok(ch)) or Some(Err(_))
decode_utf16(units) ==
    LET u == units[1]
    IN IF ~IsSurrogate(u) THEN [ok |-> TRUE, ch |-> u]
       ELSE IF u >= 56320 THEN [ok |-> FALSE, ch |-> 0]
       ELSE IF Len(units) < 2 THEN [ok |-> FALSE, ch |-> 0]
       ELSE IF units[2] < 56320 \/ units[2] > SURROGATE_LAST
            THEN [ok |-> FALSE, ch |-> 0]
       ELSE [ok |-> TRUE,
             ch |-> ((u % 1024) * 1024 + (units[2] % 1024)) + 65536]

\* fn push_u16: the Result (ok) and self afterwards
push_u16(p, o, c) ==
    CASE p = 0 /\ ~IsSurrogate(c) ->
            IF decode_utf16(<<c>>).ok
            THEN [ok |-> TRUE, out |-> Append(o, decode_utf16(<<c>>).ch), pending |-> p]
            ELSE [ok |-> FALSE, out |-> o, pending |-> p]
      [] p /= 0 /\ ~IsSurrogate(c) -> [ok |-> FALSE, out |-> o, pending |-> p]
      [] p = 0 /\ IsSurrogate(c) -> [ok |-> TRUE, out |-> o, pending |-> c]
      [] OTHER ->
            IF decode_utf16(<<p, c>>).ok
            THEN [ok |-> TRUE, out |-> Append(o, decode_utf16(<<p, c>>).ch), pending |-> 0]
            ELSE [ok |-> FALSE, out |-> o, pending |-> p]

\* push_char without the pending_surrogate test
push_char_unchecked(p, o, c) == [ok |-> TRUE, out |-> Append(o, c), pending |-> p]

\* fn push_char: the Result (ok) and self afterwards
push_char(p, o, c) ==
    IF p /= 0 THEN [ok |-> FALSE, out |-> o, pending |-> p]
    ELSE [ok |-> TRUE, out |-> Append(o, c), pending |-> p]

\* the short-escape arms with the '\'' pattern left out
ShortEscapeJson(d) ==
    CASE d \in {QUOT, BACKSLASH, SLASH} -> d
      [] d = 98 -> 8
      [] d = 102 -> 12
      [] d = 110 -> 10
      [] d = 114 -> 13
      [] d = 116 -> 9
      [] OTHER -> -1

\* the arms of `match d` that push one char: the char pushed, -1 for no such arm
ShortEscape(d) ==
    CASE d \in {QUOT, BACKSLASH, SLASH, APOS} -> d      \* '"' | '\\' | '/' | '\''
      [] d = 98 -> 8                                    \* 'b' => '\x08'
      [] d = 102 -> 12                                  \* 'f' => '\x0C'
      [] d = 110 -> 10                                  \* 'n' => '\n'
      [] d = 114 -> 13                                  \* 'r' => '\r'
      [] d = 116 -> 9                                   \* 't' => '\t'
      [] OTHER -> -1

\* the pieces the inputs are put together from
Chunks ==
    {<<97>>,                                    \* a
     <<BACKSLASH>>,                             \* a lone backslash
     <<BACKSLASH, QUOT>>, <<BACKSLASH, BACKSLASH>>, <<BACKSLASH, SLASH>>,
     <<BACKSLASH, APOS>>, <<BACKSLASH, 98>>, <<BACKSLASH, 102>>,
     <<BACKSLASH, 110>>, <<BACKSLASH, 114>>, <<BACKSLASH, 116>>,
     <<BACKSLASH, 113>>,                        \* \q
     <<BACKSLASH, LETTER_U, 100, 56, 51, 100>>, \* \ud83d
     <<BACKSLASH, LETTER_U, 68, 66, 70, 70>>,   \* \uDBFF
     <<BACKSLASH, LETTER_U, 100, 99, 97, 57>>,  \* \udca9
     <<BACKSLASH, LETTER_U, 100, 99, 48, 48>>,  \* \udc00
     <<BACKSLASH, LETTER_U, 48, 48, 52, 49>>,   \* A
     <<BACKSLASH, LETTER_U, 43, 48, 52, 49>>, \* \u+041
     <<BACKSLASH, LETTER_U, 50, 54>>}           \* \u26

UnescInputs == {Concat(cs) : cs \in SeqsUpTo(Chunks, MaxChunks)}

UnescIdle ==
    /\ s = <<>> /\ pos = 0 /\ out = <<>> /\ pending_surrogate = 0
    /\ hexnum = <<>> /\ val = [tag |-> "none", v |-> 0]
    /\ ures = "idle"

\* unescape(s): a fresh Unescaper and char_iter = s.chars()
UnescInit ==
    /\ s \in UnescInputs
    /\ pos = 0 /\ out = <<>> /\ pending_surrogate = 0
    /\ hexnum = <<>> /\ val = [tag |-> "none", v |-> 0]
    /\ ures = "run"

\* the result of an iteration that ends in push_char or push_u16
AfterPush(r) ==
    /\ out' = r.out
    /\ pending_surrogate' = r.pending
    /\ ures' = IF r.ok THEN "run" ELSE "BadEscape"

\* an iteration on a char other than a backslash
UnescLiteral ==
    /\ ures = "run" /\ pos < Len(s) /\ s[pos + 1] /= BACKSLASH
    /\ AfterPush(push_char(pending_surrogate, out, s[pos + 1]))
    /\ pos' = pos + 1
    /\ UNCHANGED <<s, hexnum, val, notUnesc>>

\* an iteration on a backslash that ends the input
UnescBackslashEnd ==
    /\ ures = "run" /\ pos < Len(s) /\ s[pos + 1] = BACKSLASH
    /\ pos + 1 = Len(s)
    /\ ures' = "BadEscape"
    /\ pos' = pos + 1
    /\ UNCHANGED <<s, out, pending_surrogate, hexnum, val, notUnesc>>

\* an iteration on a backslash and a char of the one-char escapes
UnescShort ==
    /\ ures = "run" /\ pos + 1 < Len(s) /\ s[pos + 1] = BACKSLASH
    /\ ShortEscape(s[pos + 2]) >= 0
    /\ AfterPush(push_char(pending_surrogate, out, ShortEscape(s[pos + 2])))
    /\ pos' = pos + 2
    /\ UNCHANGED <<s, hexnum, val, notUnesc>>

\* an iteration on a backslash and 'u': parse_u16, then push_u16
UnescUnicode ==
    /\ ures = "run" /\ pos + 1 < Len(s) /\ s[pos + 1] = BACKSLASH
    /\ s[pos + 2] = LETTER_U
    /\ LET r == parse_u16(s, pos + 2)
       IN /\ hexnum' = r.hexnum
          /\ val' = r.val
          /\ pos' = r.pos
          /\ IF r.val.tag = "err"
             THEN ures' = "BadEscape" /\ UNCHANGED <<out, pending_surrogate>>
             ELSE AfterPush(push_u16(pending_surrogate, out, r.val.v))
    /\ UNCHANGED <<s, notUnesc>>

\* an iteration on a backslash and any other char
UnescUnknown ==
    /\ ures = "run" /\ pos + 1 < Len(s) /\ s[pos + 1] = BACKSLASH
    /\ ShortEscape(s[pos + 2]) < 0 /\ s[pos + 2] /= LETTER_U
    /\ ures' = "BadEscape"
    /\ pos' = pos + 2
    /\ UNCHANGED <<s, out, pending_surrogate, hexnum, val, notUnesc>>

\* char_iter is exhausted: the test of pending_surrogate
UnescFinish ==
    /\ ures = "run" /\ pos = Len(s)
    /\ ures' = IF pending_surrogate /= 0 THEN "BadEscape" ELSE "Ok"
    /\ UNCHANGED <<s, pos, out, pending_surrogate, hexnum, val, notUnesc>>

UnescNext ==
    \/ UnescLiteral \/ UnescBackslashEnd \/ UnescShort
    \/ UnescUnicode \/ UnescUnknown \/ UnescFinish

-----------------------------------------------------------------------------
(* memstr *)

\* the first index of a window of haystack, from index k on, equal to needle
RECURSIVE Position(_, _, _)
Position(h, n, k) ==
    IF k + Len(n) > Len(h) THEN [tag |-> "None", idx |-> 0]
    ELSE IF SubSeq(h, k + 1, k + Len(n)) = n THEN [tag |-> "Some", idx |-> k]
    ELSE Position(h, n, k + 1)

\* pub fn memstr: slice::windows(size) panics when size is 0
memstr(h, n) ==
    IF Len(n) = 0 THEN [tag |-> "panic", idx |-> 0]
    ELSE Position(h, n, 0)

MemBytes == {97, 98}

MemIdle ==
    /\ haystack = <<>> /\ needle = <<>>
    /\ mres = [tag |-> "idle", idx |-> 0]

MemInit ==
    /\ haystack \in SeqsUpTo(MemBytes, MaxHay)
    /\ needle \in SeqsUpTo(MemBytes, MaxNeedle)
    /\ mres = [tag |-> "call", idx |-> 0]

\* one call of memstr(haystack, needle)
Memstr ==
    /\ mres.tag = "call"
    /\ mres' = memstr(haystack, needle)
    /\ UNCHANGED <<haystack, needle, notMem>>

MemNext == Memstr

-----------------------------------------------------------------------------
(* OnDrop *)

\* the closures a guard may hold
Closures == {"restore", "pop"}

Guards == 1..MaxGuards

NoGuard == [stage |-> "none", fn |-> "", slot |-> <<>>]

\* OnDrop::new(f): Self(Some(f))
new(fn) == [stage |-> "live", fn |-> fn, slot |-> <<fn>>]

\* drop that takes the closure out and forgets to call it
drop_uncalled(g) == [guard |-> [g EXCEPT !.stage = "dropped", !.slot = <<>>],
                     called |-> <<>>,
                     panicked |-> g.slot = <<>>]

\* Drop::drop: self.0.take().unwrap()(); unwrap panics on an empty slot
drop(g) == [guard |-> [g EXCEPT !.stage = "dropped", !.slot = <<>>],
            called |-> g.slot,
            panicked |-> g.slot = <<>>]

Live == {g \in Guards : guards[g].stage = "live"}

\* the guard declared last among the live ones: the first one a scope drops
Newest == CHOOSE g \in Live : \A h \in Live : h <= g

DropIdle ==
    /\ guards = [g \in Guards |-> NoGuard] /\ log = <<>> /\ scope = "idle"

DropInit ==
    /\ guards = [g \in Guards |-> NoGuard] /\ log = <<>> /\ scope = "body"

\* let guard = OnDrop::new(fn)
OnDropNew ==
    /\ scope = "body"
    /\ \E g \in Guards, fn \in Closures :
          /\ guards[g].stage = "none"
          /\ \A h \in Guards : h < g => guards[h].stage /= "none"
          /\ guards' = [guards EXCEPT ![g] = new(fn)]
    /\ UNCHANGED <<log, scope, notDrop>>

\* the drop glue runs Drop::drop on guard g and logs the closure call
RunDrop(g) ==
    /\ guards' = [guards EXCEPT ![g] = drop(guards[g]).guard]
    /\ log' = log \o [k \in 1..Len(drop(guards[g]).called) |->
                         [guard |-> g, fn |-> drop(guards[g]).called[k]]]

\* the innermost scope that holds a guard ends normally
OnDropScopeEnd ==
    /\ scope = "body" /\ Live /= {}
    /\ RunDrop(Newest)
    /\ UNCHANGED <<scope, notDrop>>

\* a panic in the body: unwinding starts
OnDropPanic ==
    /\ scope = "body"
    /\ scope' = "unwinding"
    /\ UNCHANGED <<guards, log, notDrop>>

\* unwinding drops the live guards, the newest first
OnDropUnwind ==
    /\ scope = "unwinding" /\ Live /= {}
    /\ RunDrop(Newest)
    /\ UNCHANGED <<scope, notDrop>>

\* the outermost scope is left with every guard dropped
OnDropExit ==
    /\ scope \in {"body", "unwinding"} /\ Live = {}
    /\ scope' = "exited"
    /\ UNCHANGED <<guards, log, notDrop>>

DropNext ==
    OnDropNew \/ OnDropScopeEnd \/ OnDropPanic \/ OnDropUnwind \/ OnDropExit

-----------------------------------------------------------------------------
(* Specifications: one per component, the other components idle. *)

InitHtml == HtmlInit /\ UnescIdle /\ WriteIdle /\ MemIdle /\ DropIdle
InitWrite == HtmlIdle /\ UnescIdle /\ WriteInit /\ MemIdle /\ DropIdle
InitUnescape == HtmlIdle /\ UnescInit /\ WriteIdle /\ MemIdle /\ DropIdle
InitMemstr == HtmlIdle /\ UnescIdle /\ WriteIdle /\ MemInit /\ DropIdle
InitOnDrop == HtmlIdle /\ UnescIdle /\ WriteIdle /\ MemIdle /\ DropInit

SpecHtml == InitHtml /\ [][HtmlNext]_vars
SpecWrite == InitWrite /\ [][WriteNext]_vars
SpecUnescape == InitUnescape /\ [][UnescNext]_vars
SpecMemstr == InitMemstr /\ [][MemNext]_vars
SpecOnDrop == InitOnDrop /\ [][DropNext]_vars

Init == InitHtml \/ InitWrite \/ InitUnescape \/ InitMemstr \/ InitOnDrop

Next == HtmlNext \/ WriteNext \/ UnescNext \/ MemNext \/ DropNext

Spec == Init /\ [][Next]_vars

-----------------------------------------------------------------------------
(* The claims about HtmlEscape, checked under SpecHtml. *)

\* the image of one character under the escaping table of the specification
Image(b) ==
    CASE b = 60 -> <<38, 108, 116, 59>>
      [] b = 62 -> <<38, 103, 116, 59>>
      [] b = 38 -> <<38, 97, 109, 112, 59>>
      [] b = 34 -> <<38, 113, 117, 111, 116, 59>>
      [] b = 39 -> <<38, 35, 120, 50, 55, 59>>
      [] b = 47 -> <<38, 35, 120, 50, 102, 59>>
      [] OTHER -> <<b>>

Reserved == {60, 62, 38, 34, 39, 47}

RECURSIVE Images(_)
Images(bs) == IF bs = <<>> THEN <<>> ELSE Image(Head(bs)) \o Images(Tail(bs))

\* C1: the completed output of HtmlEscape is the concatenation, in input
\* order, of the image of each byte of the input: the six reserved characters
\* map to their entities and every other byte, those of a multi-byte sequence
\* included, maps to itself; an input with none of the six comes out unchanged.
C1_HtmlEscapeIsCharMap ==
    hpc = "done" =>
        /\ f = Images(bytes)
        /\ HtmlEscape(bytes) = Images(bytes)
        /\ (\A k \in 1..Len(bytes) : bytes[k] \notin Reserved) => f = bytes

\* C1 witness: a two-byte character was copied and the '>' after it escaped
C1_Witness ==
    /\ hpc = "done"
    /\ bytes = <<195, 169, 62>>
    /\ f = <<195, 169, 38, 103, 116, 59>>

IsPrefixAt(e, txt, k) ==
    k + Len(e) - 1 <= Len(txt) /\ SubSeq(txt, k, k + Len(e) - 1) = e

\* C10: during the scan start <= i and the text written so far is the escaped
\* form of bytes[0 .. start); the flushed runs are non-empty, disjoint, in
\* increasing order and free of reserved bytes; the completed output contains
\* none of < > " ' / and each '&' in it starts one of the six entities.
C10_ScanInvariant ==
    /\ start <= i /\ i <= Len(bytes)
    /\ hpc = "scan" => f = Images(SubSeq(bytes, 1, start))
    /\ \A k \in 1..Len(writes) :
          /\ writes[k].from < writes[k].to /\ writes[k].to <= Len(bytes)
          /\ \A j \in (writes[k].from + 1)..writes[k].to : bytes[j] \notin Reserved
          /\ k < Len(writes) => writes[k].to < writes[k + 1].from
    /\ hpc = "done" =>
          \A k \in 1..Len(f) :
             /\ f[k] \notin {60, 62, 34, 39, 47}
             /\ f[k] = 38 => \E b \in Reserved : IsPrefixAt(Image(b), f, k)

\* C10 witness: two runs were flushed around an escaped '&'
C10_Witness ==
    /\ hpc = "done"
    /\ bytes = <<97, 38, 97>>
    /\ writes = <<[from |-> 0, to |-> 1], [from |-> 2, to |-> 3]>>
    /\ f = <<97, 38, 97, 109, 112, 59, 97>>

-----------------------------------------------------------------------------
(* The claims about write_escaped, checked under SpecWrite. *)

IsSafeString(v) == v.repr = "String" /\ v.ty = "Safe"

\* C2: in every escape mode, a call of write_escaped on a string marked safe
\* appends exactly the raw text of the string to the sink and returns Ok.
C2_SafeNeverEscaped ==
    [][(wres.kind = "call" /\ IsSafeString(value)) =>
          (sink' = sink \o value.text /\ wres'.kind = "Ok")]_vars

\* C2 witness: a safe string with reserved characters was written under Html
C2_Witness ==
    /\ wres.kind = "Ok"
    /\ auto_escape.tag = "Html"
    /\ value = StringValue(<<LT, AMP>>, "Safe")
    /\ sink = <<LT, 97, LT, AMP>>

\* the result is an InvalidOperation error whose message carries the name
FailsWithName(r, name) ==
    r.kind = "InvalidOperation" /\ \E k \in 1..Len(r.msg) : r.msg[k] = name

\* C3 as stated: under Custom(name) every value, strings marked safe included,
\* fails with InvalidOperation carrying name, and nothing is written.
C3_Original ==
    [][(wres.kind = "call" /\ auto_escape.tag = "Custom") =>
          (FailsWithName(wres', auto_escape.name) /\ sink' = sink)]_vars

\* C3 amended: under Custom(name) every value that is not a string marked safe
\* fails with InvalidOperation carrying name, and nothing is written; a string
\* marked safe is written raw and the call returns Ok.
C3_CustomFailsUnlessSafe ==
    [][(wres.kind = "call" /\ auto_escape.tag = "Custom") =>
          IF IsSafeString(value)
          THEN sink' = sink \o value.text /\ wres'.kind = "Ok"
          ELSE FailsWithName(wres', auto_escape.name) /\ sink' = sink]_vars

\* C3 witness: a plain string was refused under Custom("foo")
C3_Witness ==
    /\ wres.kind = "InvalidOperation"
    /\ auto_escape = [tag |-> "Custom", name |-> "foo"]
    /\ value = StringValue(<<LT>>, "Normal")
    /\ sink = <<LT, 97>>

-----------------------------------------------------------------------------
(* The claims about unescape, checked under SpecUnescape. *)

\* the next item of the input is a backslash followed by 'u'
AtUnicodeEscape == ures = "run" /\ pos + 1 < Len(s) /\ s[pos + 1] = 92 /\ s[pos + 2] = 117

InRange(c, lo, hi) == lo <= c /\ c <= hi

\* C4: a surrogate-range \u value met with nothing pending is stored and
\* nothing is appended; the surrogate-range \u value that follows it appends
\* the one character 0x10000 + (hi - 0xD800) * 0x400 + (lo - 0xDC00) and clears
\* the pending slot when hi is in 0xD800..0xDBFF and lo in 0xDC00..0xDFFF, and
\* fails with BadEscape for every other combination.
C4_SurrogatePair ==
    [][(AtUnicodeEscape /\ val'.tag = "ok" /\ InRange(val'.v, 55296, 57343)) =>
          IF pending_surrogate = 0
          THEN pending_surrogate' = val'.v /\ out' = out /\ ures' = "run"
          ELSE IF InRange(pending_surrogate, 55296, 56319) /\ InRange(val'.v, 56320, 57343)
               THEN /\ out' = Append(out, 65536 + (pending_surrogate - 55296) * 1024
                                                + (val'.v - 56320))
                    /\ pending_surrogate' = 0
                    /\ ures' = "run"
               ELSE ures' = "BadEscape" /\ out' = out]_vars

\* C4 witness: \ud83d\udca9 was decoded to the one character U+1F4A9
C4_Witness ==
    /\ ures = "Ok"
    /\ s = <<92, 117, 100, 56, 51, 100, 92, 117, 100, 99, 97, 57>>
    /\ out = <<128169>>
    /\ pending_surrogate = 0

\* C5: with a surrogate pending, every step either fails with BadEscape or is
\* a \u escape whose value is in the surrogate range (a literal character, a
\* short escape, a non-surrogate \u escape and the end of the input all fail);
\* hence unescape returns Ok only with the pending slot zero.
C5_PendingMustPair ==
    /\ [][(ures = "run" /\ pending_surrogate /= 0) =>
             \/ ures' = "BadEscape"
             \/ AtUnicodeEscape /\ val'.tag = "ok" /\ InRange(val'.v, 55296, 57343)]_vars
    /\ [](ures = "Ok" => pending_surrogate = 0)

\* C5 witness: a literal character after \ud83d was refused
C5_Witness ==
    /\ ures = "BadEscape"
    /\ s = <<92, 117, 100, 56, 51, 100, 97>>
    /\ pos = 7
    /\ pending_surrogate = 55357
    /\ out = <<>>

\* the character a one-character escape stands for in the claim
ShortImage(d) ==
    CASE d = 98 -> 8 [] d = 102 -> 12 [] d = 110 -> 10 [] d = 114 -> 13
      [] d = 116 -> 9 [] OTHER -> d

\* a step on a backslash: `short` is the set of one-character escapes and
\* `whenPending` tells whether such an escape has to fail while a surrogate
\* is pending
BackslashStep(short, whenPending) ==
    (ures = "run" /\ pos < Len(s) /\ s[pos + 1] = 92) =>
        IF pos + 1 = Len(s) THEN ures' = "BadEscape"
        ELSE IF s[pos + 2] \in short
             THEN IF whenPending /\ pending_surrogate /= 0
                  THEN ures' = "BadEscape" /\ out' = out
                  ELSE out' = Append(out, ShortImage(s[pos + 2])) /\ ures' = "run"
        ELSE IF s[pos + 2] = 117
             THEN hexnum' = Take4(s, pos + 2) /\ val'.tag \in {"ok", "err"}
        ELSE ures' = "BadEscape"

IsHexDigit(c) == InRange(c, 48, 57) \/ InRange(c, 97, 102) \/ InRange(c, 65, 70)

HexDigitValue(c) ==
    IF InRange(c, 48, 57) THEN c - 48
    ELSE IF InRange(c, 97, 102) THEN c - 87 ELSE c - 55

\* C7: a \u escape consumes the next 4 characters (fewer only at the end of
\* the input) and parses only if all four are present and are hexadecimal
\* digits, its value being their base-16 number; any other character among
\* the four, a '+' included, makes unescape fail with BadEscape.
C7_FourHexDigits ==
    [][AtUnicodeEscape =>
          /\ pos' = Min(pos + 6, Len(s))
          /\ IF pos + 6 <= Len(s) /\ \A k \in 3..6 : IsHexDigit(s[pos + k])
             THEN /\ val'.tag = "ok"
                  /\ val'.v = HexDigitValue(s[pos + 3]) * 4096
                              + HexDigitValue(s[pos + 4]) * 256
                              + HexDigitValue(s[pos + 5]) * 16
                              + HexDigitValue(s[pos + 6])
             ELSE ures' = "BadEscape"]_vars

-----------------------------------------------------------------------------
(* The claim about memstr, checked under SpecMemstr. *)

\* an index of h, from 0, where a window of h equals n
MatchesAt(h, n, k) == k + Len(n) <= Len(h) /\ SubSeq(h, k + 1, k + Len(n)) = n

\* C8: for every haystack and needle, the empty needle and needles longer than
\* the haystack included, memstr returns normally, with the smallest index
\* where a window of the haystack equals the needle, or None when there is
\* none; for the empty needle it returns index 0.
C8_FirstMatch ==
    mres.tag \notin {"idle", "call"} =>
        /\ mres.tag /= "panic"
        /\ IF \E k \in 0..Len(haystack) : MatchesAt(haystack, needle, k)
           THEN /\ mres.tag = "Some"
                /\ MatchesAt(haystack, needle, mres.idx)
                /\ \A k \in 0..Len(haystack) :
                      MatchesAt(haystack, needle, k) => mres.idx <= k
           ELSE mres.tag = "None"

-----------------------------------------------------------------------------
(* The claim about OnDrop, checked under SpecOnDrop. *)

Calls(g) == {k \in 1..Len(log) : log[k].guard = g}

\* C9: the closure a guard holds is not invoked before the guard is dropped,
\* is invoked when the guard is dropped, and is never invoked a second time;
\* when the scope has been left, normally or by unwinding, no guard is left
\* undropped.
C9_ExactlyOnce ==
    \A g \in Guards :
        /\ guards[g].stage \in {"none", "live"} => Calls(g) = {}
        /\ guards[g].stage = "live" => guards[g].slot = <<guards[g].fn>>
        /\ guards[g].stage = "dropped" =>
              /\ Cardinality(Calls(g)) = 1
              /\ \A k \in Calls(g) : log[k].fn = guards[g].fn
        /\ scope = "exited" => guards[g].stage /= "live"

\* C9 witness: two guards were dropped, the newer one first, and the scope left
C9_Witness ==
    /\ scope = "exited"
    /\ log = <<[guard |-> 2, fn |-> "pop"], [guard |-> 1, fn |-> "restore"]>>

=============================================================================
